---- MODULE Spec2Model ----
(***************************************************************************)
(* Model of merge_codebase_to_xml.py: one run of main() over a small       *)
(* filesystem.  Paths are sequences of names, names and texts are          *)
(* sequences of one-character strings, so that suffix extraction, case     *)
(* folding, path resolution, newline translation and XML escaping and      *)
(* parsing are computed character by character.  The modelled filesystem   *)
(* has no symbolic links and no ".." components.                           *)
(***************************************************************************)
EXTENDS Integers, Sequences, FiniteSets

\* ------------------------------------------------------------------ bounds
\* most entries present under the working directory in one run
MaxEntries == 3
\* most --file options on one command line
MaxFileArgs == 2
\* longest text of the file whose content is varied
MaxLen == 3

\* ------------------------------------------------------------ characters
LF == "\n"
CR == "\r"
\* a C0 control character other than tab, LF, CR (form feed)
FF == "\f"

UpperAlpha == <<"A","B","C","D","E","F","G","H","I","J","K","L","M",
                "N","O","P","Q","R","S","T","U","V","W","X","Y","Z">>
LowerAlpha == <<"a","b","c","d","e","f","g","h","i","j","k","l","m",
                "n","o","p","q","r","s","t","u","v","w","x","y","z">>

\* str.lower() on one character
LowerChar(c) ==
  IF \E i \in 1..26 : UpperAlpha[i] = c
  THEN LowerAlpha[CHOOSE i \in 1..26 : UpperAlpha[i] = c]
  ELSE c

\* str.lower()
Lower(s) == [i \in 1..Len(s) |-> LowerChar(s[i])]

\* ----------------------------------------------------------------- paths
\* argparse leaves an option that was not given at None
None == <<>>

Root == <<"/">>
\* the working directory of the process
Cwd == <<Root, <<"w">>>>

IsAbsolute(p) == Len(p) > 0 /\ p[1] = Root

\* Path.name
Name(p) == p[Len(p)]

\* Path.parent
Parent(p) == SubSeq(p, 1, Len(p) - 1)

\* Path.suffix: from the last dot, unless the dot is first or last in the name
Suffix(name) ==
  LET dots == {i \in 1..Len(name) : name[i] = "."}
  IN IF dots = {} THEN <<>>
     ELSE LET i == CHOOSE k \in dots : \A j \in dots : j <= k
          IN IF 1 < i /\ i < Len(name) THEN SubSeq(name, i, Len(name)) ELSE <<>>

\* Path.resolve(): an absolute path is kept, a relative one is joined to the
\* working directory
Resolve(p) == IF IsAbsolute(p) THEN p ELSE Cwd \o p

EXTENSIONS == { <<".","p","y">>, <<".","t","s">>, <<".","j","s","x">>,
                <<".","j","s">>, <<".","t","s","x">> }

\* str(path): the names joined by "/", the root written once
RECURSIVE JoinNames(_)
JoinNames(p) ==
  IF p = <<>> THEN <<>>
  ELSE IF Len(p) = 1 THEN p[1]
  ELSE p[1] \o <<"/">> \o JoinNames(Tail(p))

PathStr(p) ==
  IF p = <<>> THEN <<".">>
  ELSE IF IsAbsolute(p) THEN Root \o JoinNames(Tail(p))
  ELSE JoinNames(p)

\* the suffix test without case folding
MatchesNoLower(p, extensions) == Suffix(Name(p)) \in extensions

\* p.suffix.lower() in extensions
Matches(p, extensions) == Lower(Suffix(Name(p))) \in extensions

\* ------------------------------------------------------------------ text
\* read_text() opens the file in text mode with newline=None: "\r\n" and a
\* lone "\r" are both delivered as "\n"
RECURSIVE UniversalNewlines(_)
UniversalNewlines(s) ==
  IF s = <<>> THEN <<>>
  ELSE IF s[1] = CR
       THEN IF Len(s) > 1 /\ s[2] = LF
            THEN <<LF>> \o UniversalNewlines(SubSeq(s, 3, Len(s)))
            ELSE <<LF>> \o UniversalNewlines(Tail(s))
       ELSE <<s[1]>> \o UniversalNewlines(Tail(s))

AMP == <<"&","a","m","p",";">>
LT == <<"&","l","t",";">>
GT == <<"&","g","t",";">>
QUOT == <<"&","q","u","o","t",";">>

\* ElementTree._escape_cdata, used by ET.tostring for element text
RECURSIVE EscapeCdata(_)
EscapeCdata(s) ==
  IF s = <<>> THEN <<>>
  ELSE (CASE s[1] = "&" -> AMP
          [] s[1] = "<" -> LT
          [] s[1] = ">" -> GT
          [] OTHER -> <<s[1]>>) \o EscapeCdata(Tail(s))

\* an output escaper that lets "<" and "&" through
RECURSIVE WriteDataNoEscape(_)
WriteDataNoEscape(s) ==
  IF s = <<>> THEN <<>>
  ELSE (CASE s[1] = ">" -> GT
          [] s[1] = "\"" -> QUOT
          [] OTHER -> <<s[1]>>) \o WriteDataNoEscape(Tail(s))

\* minidom._write_data, used by toprettyxml for text nodes
RECURSIVE WriteData(_)
WriteData(s) ==
  IF s = <<>> THEN <<>>
  ELSE (CASE s[1] = "&" -> AMP
          [] s[1] = "<" -> LT
          [] s[1] = ">" -> GT
          [] s[1] = "\"" -> QUOT
          [] OTHER -> <<s[1]>>) \o WriteData(Tail(s))

HasPrefix(s, pre) == Len(s) >= Len(pre) /\ SubSeq(s, 1, Len(pre)) = pre

\* characters the XML parser refuses in a document
IsForbiddenChar(c) == c = FF

\* The character data of an element as an XML parser delivers it: entity
\* references are replaced, line ends are normalised to "\n", and a "<", an
\* unknown reference or a forbidden character makes the document not
\* well-formed.
RECURSIVE XmlText(_)
XmlText(s) ==
  IF s = <<>> THEN [ok |-> TRUE, text |-> <<>>]
  ELSE
    LET ent == CASE HasPrefix(s, AMP) -> [n |-> Len(AMP), c |-> "&"]
                 [] HasPrefix(s, LT) -> [n |-> Len(LT), c |-> "<"]
                 [] HasPrefix(s, GT) -> [n |-> Len(GT), c |-> ">"]
                 [] HasPrefix(s, QUOT) -> [n |-> Len(QUOT), c |-> "\""]
                 [] HasPrefix(s, <<CR, LF>>) -> [n |-> 2, c |-> LF]
                 [] s[1] = CR /\ ~HasPrefix(s, <<CR, LF>>) -> [n |-> 1, c |-> LF]
                 [] OTHER -> [n |-> 1, c |-> s[1]]
        bad == (s[1] = "&" /\ ent.n = 1) \/ s[1] = "<" \/ IsForbiddenChar(s[1])
        rest == XmlText(SubSeq(s, ent.n + 1, Len(s)))
    IN IF bad \/ ~rest.ok THEN [ok |-> FALSE, text |-> <<>>]
       ELSE [ok |-> TRUE, text |-> <<ent.c>> \o rest.text]

\* ------------------------------------------------------------- filesystem
N_d == <<"d">>
N_a_py == <<"a",".","p","y">>
N_B_JS == <<"B",".","J","S">>
N_c_txt == <<"c",".","t","x","t">>
N_x_js == <<"x",".","j","s">>
N_e_tsx == <<"e",".","t","s","x">>
N_g_Ts == <<"g",".","T","s">>
N_o == <<"o">>
N_out_xml == <<"o","u","t",".","x","m","l">>

\* the scanned directory, as an absolute and as a relative path
DirAbs == Cwd \o <<N_d>>
DirRel == <<N_d>>

F_a == DirAbs \o <<N_a_py>>
F_B == DirAbs \o <<N_B_JS>>
F_c == DirAbs \o <<N_c_txt>>
\* a directory whose name ends in .js
D_x == DirAbs \o <<N_x_js>>
F_e == D_x \o <<N_e_tsx>>
\* a file outside the scanned directory
F_g == Cwd \o <<N_g_Ts>>

\* the entries that can be present in one run, by resolved path
Candidates == {F_a, F_B, F_c, D_x, F_e, F_g}

IsDirEntry(abs) == abs = D_x

\* the values --file is given in the runs explored
FileArgForms == { <<N_d, N_a_py>>, <<N_d, N_c_txt>>, <<N_d, N_x_js>>, F_g }

\* the values --output-file is given: in the working directory, or in a
\* directory o that does not exist yet
OutHere == <<N_out_xml>>
OutSub == <<N_o, N_out_xml>>

\* what reading a file that cannot be read raises, by file
FaultOf(abs) ==
  CASE abs = F_a -> "PermissionError"
    [] abs = F_B -> "UnicodeDecodeError"
    [] OTHER -> "FileNotFoundError"

\* the text of the files whose content is not varied
DefaultText(abs) ==
  CASE abs = F_a -> <<"x", "&">>
    [] abs = F_B -> <<" ", "<", "b", ">", LF>>
    [] abs = F_e -> <<"e", LF, " ">>
    [] abs = F_g -> <<"\"", "g">>
    [] OTHER -> <<"c">>

TextChars == {"a", " ", LF, CR, "<", "&", "\"", FF}

RECURSIVE SeqsUpTo(_, _)
SeqsUpTo(S, n) ==
  IF n = 0 THEN {<<>>}
  ELSE LET shorter == SeqsUpTo(S, n - 1)
       IN shorter \cup {Append(s, x) : s \in {t \in shorter : Len(t) = n - 1}, x \in S}

Texts == SeqsUpTo(TextChars, MaxLen)

Range(f) == {f[i] : i \in DOMAIN f}

\* ------------------------------------------------------------------ state
VARIABLES
  args,              \* the parsed command line: input_dir, file, output_file
  tree,              \* resolved paths of the entries present
  unreadable,        \* regular files whose read raises
  content,           \* text of each regular file
  outDirExists,      \* whether the directory o exists
  outFile,           \* the file at the output path
  pc,                \* position in main()
  target_files,      \* main's target_files (line 113)
  individual_files,  \* main's individual_files (line 119)
  all_target_files,  \* main's all_target_files
  xml_root,          \* the <file> children of <codebase>, in order
  pretty_xml,        \* the rendered document
  log,               \* logging output
  writes,            \* calls of output_file.write_text
  exitCode           \* process exit status, -1 while running

vars == <<args, tree, unreadable, content, outDirExists, outFile, pc, target_files,
          individual_files, all_target_files, xml_root, pretty_xml, log, writes,
          exitCode>>

env == <<args, tree, unreadable, content>>

Msg(level, msg, about) == [level |-> level, msg |-> msg, about |-> about]

RegularFiles(t) == {f \in t : ~IsDirEntry(f)}

\* a document left at the output path by an earlier run
OldDoc == <<[filename |-> <<"o","l","d">>, filepath |-> <<"/","o","l","d">>,
             contents |-> <<"o","l","d">>]>>

InitProgram ==
  /\ outDirExists = FALSE
  /\ pc = "parse"
  /\ target_files = {}
  /\ individual_files = <<>>
  /\ all_target_files = {}
  /\ xml_root = <<>>
  /\ pretty_xml = <<>>
  /\ log = <<>>
  /\ writes = 0
  /\ exitCode = -1

\* runs over varied trees and scanned directories
InitScan ==
  /\ tree \in {t \in SUBSET Candidates :
                 /\ Cardinality(t) <= MaxEntries
                 /\ F_e \in t => D_x \in t}
  /\ unreadable \in SUBSET RegularFiles(tree)
  /\ content = [f \in RegularFiles(tree) |-> DefaultText(f)]
  /\ args \in [input_dir : {None, DirRel, DirAbs},
               file : {None, <<<<N_d, N_a_py>>>>, <<F_g, F_a>>},
               output_file : {OutHere}]
  /\ outFile = [state |-> "absent", doc |-> <<>>]

\* runs over varied --file lists
InitFilter ==
  /\ tree \in {t \in SUBSET {F_a, D_x, F_g} : Cardinality(t) <= MaxEntries}
  /\ unreadable = {}
  /\ content = [f \in RegularFiles(tree) |-> DefaultText(f)]
  /\ args \in [input_dir : {None, DirRel},
               file : SeqsUpTo(FileArgForms, MaxFileArgs),
               output_file : {OutHere}]
  /\ outFile = [state |-> "absent", doc |-> <<>>]

\* runs over varied output paths
InitOutput ==
  /\ tree \in {{}, {F_a}, {F_c}, {F_c, F_g}}
  /\ unreadable = {}
  /\ content = [f \in RegularFiles(tree) |-> DefaultText(f)]
  /\ args \in [input_dir : {None, DirRel},
               file : {None, <<F_g>>},
               output_file : {None, OutHere, OutSub}]
  /\ outFile \in {[state |-> "absent", doc |-> <<>>], [state |-> "old", doc |-> OldDoc]}
  /\ args.output_file = OutSub => outFile.state = "absent"

\* runs over one file of varied text
InitText ==
  /\ tree = {F_a}
  /\ unreadable = {}
  /\ content \in [{F_a} -> Texts]
  /\ args \in [input_dir : {None, DirRel},
               file : {None, <<F_a>>},
               output_file : {OutHere}]
  /\ outFile \in {[state |-> "absent", doc |-> <<>>], [state |-> "old", doc |-> OldDoc]}

Init == InitProgram /\ (InitScan \/ InitFilter \/ InitOutput \/ InitText)

\* ------------------------------------------------------------- collection
\* input_dir.rglob('*'): every entry below the directory, at any depth, as
\* the directory's path joined with the entry's relative path
RGlob(input_dir) ==
  LET base == Resolve(input_dir)
  IN { input_dir \o SubSeq(e, Len(base) + 1, Len(e)) :
         e \in {x \in tree : Len(x) > Len(base) /\ SubSeq(x, 1, Len(base)) = base} }

GetTargetFiles(input_dir, extensions) ==
  {p \in RGlob(input_dir) : Matches(p, extensions)}

\* Path.exists() in the place of is_file()
IsFileExists(p) == Resolve(p) \in tree

\* Path.is_file()
IsFile(p) == Resolve(p) \in tree /\ ~IsDirEntry(Resolve(p))

RECURSIVE FilterFilesByExtension(_, _)
FilterFilesByExtension(files, extensions) ==
  IF files = <<>> THEN [files |-> <<>>, warnings |-> <<>>]
  ELSE LET file == Head(files)
           rest == FilterFilesByExtension(Tail(files), extensions)
       IN IF Matches(file, extensions)
          THEN IF IsFile(file)
               THEN [files |-> <<Resolve(file)>> \o rest.files, warnings |-> rest.warnings]
               ELSE [files |-> rest.files,
                     warnings |-> <<Msg("WARNING", "is not a valid file and will be skipped", file)>>
                                  \o rest.warnings]
          ELSE rest

\* ---------------------------------------------------------------- building
ErrPrefix == <<"E","r","r","o","r"," ","r","e","a","d","i","n","g"," ","f","i","l","e",":"," ">>

\* the outcome of file_path.read_text(encoding="utf-8"): the error raised, or
\* "" when the read succeeds
ReadError(p) ==
  LET abs == Resolve(p)
  IN IF IsDirEntry(abs) /\ abs \in tree THEN "IsADirectoryError"
     ELSE IF abs \notin tree THEN "FileNotFoundError"
     ELSE IF abs \in unreadable THEN FaultOf(abs)
     ELSE ""

\* the error message without its fixed prefix
ReadContentsNoPrefix(p) ==
  IF ReadError(p) # "" THEN <<ReadError(p)>>
  ELSE UniversalNewlines(content[Resolve(p)])

\* lines 84-87: the text read, or the error message in its place
ReadContents(p) ==
  IF ReadError(p) # "" THEN ErrPrefix \o <<ReadError(p)>>
  ELSE UniversalNewlines(content[Resolve(p)])

\* lines 75-89: one <file> element
FileElement(p) ==
  [filename |-> Name(p), filepath |-> PathStr(Resolve(p)), contents |-> ReadContents(p)]

\* the orders in which a set can be iterated
RECURSIVE Orders(_)
Orders(S) ==
  IF S = {} THEN {<<>>}
  ELSE UNION {{<<x>> \o o : o \in Orders(S \ {x})} : x \in S}

\* ET.tostring: the text of every element escaped
ToString(root) ==
  [i \in 1..Len(root) |-> [filename |-> EscapeCdata(root[i].filename),
                           filepath |-> EscapeCdata(root[i].filepath),
                           contents |-> EscapeCdata(root[i].contents)]]

\* whether minidom.parseString accepts the serialised tree
WellFormed(doc) ==
  \A i \in 1..Len(doc) :
    XmlText(doc[i].filename).ok /\ XmlText(doc[i].filepath).ok /\ XmlText(doc[i].contents).ok

\* minidom.parseString: the text nodes of the document
ParseString(doc) ==
  [i \in 1..Len(doc) |-> [filename |-> XmlText(doc[i].filename).text,
                          filepath |-> XmlText(doc[i].filepath).text,
                          contents |-> XmlText(doc[i].contents).text]]

\* toprettyxml: an element holding one text node is written on one line, its
\* text escaped and otherwise unchanged
ToPrettyXml(dom) ==
  [i \in 1..Len(dom) |-> [filename |-> WriteData(dom[i].filename),
                          filepath |-> WriteData(dom[i].filepath),
                          contents |-> WriteData(dom[i].contents)]]

\* ----------------------------------------------------------------- actions
\* parse_arguments without the check of line 40
ParseArgumentsNoCheck ==
  /\ pc = "parse"
  /\ IF args.output_file = None
     THEN /\ pc' = "done"
          /\ exitCode' = 2
          /\ log' = Append(log, Msg("USAGE", "error", <<>>))
     ELSE /\ pc' = "scan"
          /\ UNCHANGED <<exitCode, log>>
  /\ UNCHANGED <<env, outDirExists, outFile, target_files, individual_files,
                 all_target_files, xml_root, pretty_xml, writes>>

\* parse_arguments: --output-file is required, and one of --input-dir and
\* --file must be given; parser.error exits with status 2
ParseArguments ==
  /\ pc = "parse"
  /\ IF args.output_file = None \/ (args.input_dir = None /\ args.file = None)
     THEN /\ pc' = "done"
          /\ exitCode' = 2
          /\ log' = Append(log, Msg("USAGE", "error", <<>>))
     ELSE /\ pc' = "scan"
          /\ UNCHANGED <<exitCode, log>>
  /\ UNCHANGED <<env, outDirExists, outFile, target_files, individual_files,
                 all_target_files, xml_root, pretty_xml, writes>>

\* main, lines 110-115
ScanDirectory ==
  /\ pc = "scan"
  /\ IF args.input_dir # None
     THEN /\ target_files' = GetTargetFiles(args.input_dir, EXTENSIONS)
          /\ all_target_files' = all_target_files \cup target_files'
          /\ log' = log \o <<Msg("INFO", "Scanning directory", args.input_dir),
                              Msg("INFO", "Found files in directory", <<>>)>>
     ELSE UNCHANGED <<target_files, all_target_files, log>>
  /\ pc' = "files"
  /\ UNCHANGED <<env, outDirExists, outFile, individual_files, xml_root, pretty_xml,
                 writes, exitCode>>

\* main, lines 118-121
AddIndividualFiles ==
  /\ pc = "files"
  /\ IF args.file # None
     THEN LET r == FilterFilesByExtension(args.file, EXTENSIONS)
          IN /\ individual_files' = r.files
             /\ all_target_files' = all_target_files \cup Range(r.files)
             /\ log' = log \o r.warnings \o <<Msg("INFO", "Adding individual files", <<>>)>>
     ELSE UNCHANGED <<individual_files, all_target_files, log>>
  /\ pc' = "check"
  /\ UNCHANGED <<env, outDirExists, outFile, target_files, xml_root, pretty_xml,
                 writes, exitCode>>

NoFilesWarning == Msg("WARNING", "No files to process. Exiting.", <<>>)

\* lines 123-127 without the return of line 127
CheckEmptyNoReturn ==
  /\ pc = "check"
  /\ log' = IF all_target_files = {}
            THEN log \o <<Msg("INFO", "Total unique files to process", <<>>), NoFilesWarning>>
            ELSE Append(log, Msg("INFO", "Total unique files to process", <<>>))
  /\ pc' = "build"
  /\ UNCHANGED <<env, outDirExists, outFile, target_files, individual_files,
                 all_target_files, xml_root, pretty_xml, writes, exitCode>>

\* main, lines 123-127
CheckEmpty ==
  /\ pc = "check"
  /\ IF all_target_files = {}
     THEN /\ log' = log \o <<Msg("INFO", "Total unique files to process", <<>>), NoFilesWarning>>
          /\ pc' = "done"
          /\ exitCode' = 0
     ELSE /\ log' = Append(log, Msg("INFO", "Total unique files to process", <<>>))
          /\ pc' = "build"
          /\ UNCHANGED exitCode
  /\ UNCHANGED <<env, outDirExists, outFile, target_files, individual_files,
                 all_target_files, xml_root, pretty_xml, writes>>

\* the output file opened for writing before the inputs are read
CreateXmlStructureOpensOutput ==
  /\ pc = "build"
  /\ \E order \in Orders(all_target_files) :
       xml_root' = [i \in 1..Len(order) |-> FileElement(order[i])]
  /\ outFile' = [state |-> "truncated", doc |-> <<>>]
  /\ log' = Append(log, Msg("INFO", "Creating XML structure...", <<>>))
  /\ pc' = "prettify"
  /\ UNCHANGED <<env, outDirExists, target_files, individual_files,
                 all_target_files, pretty_xml, writes, exitCode>>

\* main, lines 129-130, and create_xml_structure: one <file> element for each
\* member of the set, in the order the set is iterated
CreateXmlStructure ==
  /\ pc = "build"
  /\ \E order \in Orders(all_target_files) :
       xml_root' = [i \in 1..Len(order) |-> FileElement(order[i])]
  /\ log' = Append(log, Msg("INFO", "Creating XML structure...", <<>>))
  /\ pc' = "prettify"
  /\ UNCHANGED <<env, outDirExists, outFile, target_files, individual_files,
                 all_target_files, pretty_xml, writes, exitCode>>

\* main, lines 132-133, and prettify_xml: an ExpatError raised by
\* minidom.parseString is caught nowhere and ends the process with status 1
PrettifyXml ==
  /\ pc = "prettify"
  /\ LET rough_string == ToString(xml_root)
     IN IF WellFormed(rough_string)
        THEN /\ pretty_xml' = ToPrettyXml(ParseString(rough_string))
             /\ log' = Append(log, Msg("INFO", "Generating pretty XML...", <<>>))
             /\ pc' = "mkdir"
             /\ UNCHANGED exitCode
        ELSE /\ log' = log \o <<Msg("INFO", "Generating pretty XML...", <<>>),
                                 Msg("TRACEBACK", "ExpatError", <<>>)>>
             /\ pc' = "done"
             /\ exitCode' = 1
             /\ UNCHANGED pretty_xml
  /\ UNCHANGED <<env, outDirExists, outFile, target_files, individual_files,
                 all_target_files, xml_root, writes>>

\* output_dir.exists(): the working directory exists, o only once created
OutputDirPresent == Parent(args.output_file) = <<>> \/ outDirExists

MkdirError == Msg("ERROR", "Error creating output directory", <<>>)

\* main, lines 136-143, the directory present or created
EnsureOutputDirOk ==
  /\ pc = "mkdir"
  /\ IF OutputDirPresent
     THEN UNCHANGED <<outDirExists, log>>
     ELSE /\ outDirExists' = TRUE
          /\ log' = Append(log, Msg("INFO", "Created output directory", <<>>))
  /\ pc' = "write"
  /\ UNCHANGED <<env, outFile, target_files, individual_files, all_target_files,
                 xml_root, pretty_xml, writes, exitCode>>

\* mkdir raising, without the return of line 143
EnsureOutputDirFailsNoReturn ==
  /\ pc = "mkdir"
  /\ ~OutputDirPresent
  /\ log' = Append(log, Msg("ERROR", "Error creating output directory", <<>>))
  /\ pc' = "write"
  /\ UNCHANGED <<env, outDirExists, outFile, target_files, individual_files,
                 all_target_files, xml_root, pretty_xml, writes, exitCode>>

\* main, lines 137-143, mkdir raising
EnsureOutputDirFails ==
  /\ pc = "mkdir"
  /\ ~OutputDirPresent
  /\ log' = Append(log, MkdirError)
  /\ pc' = "done"
  /\ exitCode' = 0
  /\ UNCHANGED <<env, outDirExists, outFile, target_files, individual_files,
                 all_target_files, xml_root, pretty_xml, writes>>

\* main, lines 145-148, write_text succeeding
WriteOutputOk ==
  /\ pc = "write"
  /\ writes' = writes + 1
  /\ outFile' = [state |-> "written", doc |-> pretty_xml]
  /\ log' = log \o <<Msg("INFO", "Writing to output file", <<>>),
                      Msg("INFO", "XML file creation complete.", <<>>)>>
  /\ pc' = "done"
  /\ exitCode' = 0
  /\ UNCHANGED <<env, outDirExists, target_files, individual_files, all_target_files,
                 xml_root, pretty_xml>>

\* main, lines 145-150, write_text raising: the file is as it was when the
\* open failed, and truncated when the write failed after the open
WriteOutputFails ==
  /\ pc = "write"
  /\ writes' = writes + 1
  /\ outFile' \in {outFile, [state |-> "truncated", doc |-> <<>>]}
  /\ log' = log \o <<Msg("INFO", "Writing to output file", <<>>),
                      Msg("ERROR", "Error writing to output file", <<>>)>>
  /\ pc' = "done"
  /\ exitCode' = 0
  /\ UNCHANGED <<env, outDirExists, target_files, individual_files, all_target_files,
                 xml_root, pretty_xml>>

Next ==
  \/ ParseArguments
  \/ ScanDirectory
  \/ AddIndividualFiles
  \/ CheckEmpty
  \/ CreateXmlStructure
  \/ PrettifyXml
  \/ EnsureOutputDirOk
  \/ EnsureOutputDirFails
  \/ WriteOutputOk
  \/ WriteOutputFails

Spec == Init /\ [][Next]_vars

\* ------------------------------------------------------------ properties
\* what the properties are stated against: the names of the explored
\* filesystem that end, ignoring case, in one of the five extensions, and the
\* file each --file value denotes
ExpectedMatchNames == {N_a_py, N_B_JS, N_x_js, N_e_tsx, N_g_Ts}

ArgTarget(p) ==
  CASE p = <<N_d, N_a_py>> -> F_a
    [] p = <<N_d, N_c_txt>> -> F_c
    [] p = <<N_d, N_x_js>> -> D_x
    [] OTHER -> p

ValidArgs == args.output_file # None /\ (args.input_dir # None \/ args.file # None)

Built == Msg("INFO", "Creating XML structure...", <<>>) \in Range(log)

OutputUntouched ==
  /\ writes = 0
  /\ ~outDirExists
  /\ outFile.state \in {"absent", "old"}
  /\ outFile.state = "old" => outFile.doc = OldDoc

\* the k-th smallest member of a set of numbers
Kth(S, k) == CHOOSE i \in S : Cardinality({j \in S : j <= i}) = k

\* the <file> records of a document whose filepath is that of f
RecordsFor(doc, f) == {i \in 1..Len(doc) : XmlText(doc[i].filepath).text = PathStr(f)}

ReachableByScan(f) ==
  /\ args.input_dir # None
  /\ f \in tree \ {F_g}
  /\ Name(f) \in ExpectedMatchNames

ReachableByFile(f) ==
  /\ f \in RegularFiles(tree)
  /\ Name(f) \in ExpectedMatchNames
  /\ \E i \in DOMAIN args.file : ArgTarget(args.file[i]) = f

\* C1: a file reachable both through --input-dir and through --file has
\* exactly one <file> record in the written document.
C1_OneRecordPerFile ==
  outFile.state = "written" =>
    \A f \in tree :
      (ReachableByScan(f) /\ ReachableByFile(f)) =>
        Cardinality(RecordsFor(outFile.doc, f)) = 1

\* C2: with neither --input-dir nor --file the run ends in a usage error
\* with a non-zero status, never reaches collection, building or writing,
\* and leaves the output path alone.
C2_NoInputIsUsageError ==
  (args.input_dir = None /\ args.file = None) =>
    /\ pc \in {"parse", "done"}
    /\ pc = "done" => (exitCode = 2 /\ log = <<Msg("USAGE", "error", <<>>)>>)
    /\ OutputUntouched
    /\ xml_root = <<>> /\ pretty_xml = <<>>

C2_Witness ==
  /\ args.input_dir = None /\ args.file = None /\ args.output_file # None
  /\ pc = "done"
  /\ outFile.state = "old"

\* C3: when the collected set is empty after the scan and the filter, the
\* run warns, never creates the output file or its directory, and exits 0.
C3_EmptySetExitsClean ==
  (ValidArgs /\ pc \notin {"parse", "scan", "files"} /\ all_target_files = {}) =>
    /\ pc \in {"check", "done"}
    /\ OutputUntouched
    /\ pc = "done" => (exitCode = 0 /\ log[Len(log)] = NoFilesWarning)

C3_Witness ==
  /\ pc = "done" /\ ValidArgs /\ all_target_files = {}
  /\ args.input_dir # None /\ F_c \in tree
  /\ args.file # None /\ args.output_file = OutSub

\* the file a collected path denotes
AbsOf(p) == IF p[1] = <<"/">> THEN p ELSE <<<<"/">>, <<"w">>>> \o p

\* whether reading the collected path p fails
CannotRead(p) ==
  AbsOf(p) \notin RegularFiles(tree) \/ AbsOf(p) \in unreadable

\* C4: every collected path has its own <file> record, whichever reads
\* fail, and the record of a path whose read fails holds a text starting
\* with "Error reading file: ".
C4_ReadErrorsAreLocal ==
  Built =>
    /\ Len(xml_root) = Cardinality(all_target_files)
    /\ \A p \in all_target_files :
         LET recs == {i \in 1..Len(xml_root) : xml_root[i].filepath = PathStr(AbsOf(p))}
         IN /\ Cardinality(recs) = Cardinality({q \in all_target_files : AbsOf(q) = AbsOf(p)})
            /\ \A i \in recs : xml_root[i].filename = p[Len(p)]
            /\ CannotRead(p) => \A i \in recs : HasPrefix(xml_root[i].contents, ErrPrefix)

C4_Witness ==
  /\ Built
  /\ \E p, q, r \in all_target_files :
       /\ AbsOf(p) \in unreadable
       /\ AbsOf(q) = D_x
       /\ ~CannotRead(r)

ExpectedNewlines(C) ==
  LET keep == {i \in 1..Len(C) : ~(C[i] = LF /\ i > 1 /\ C[i-1] = CR)}
  IN [k \in 1..Cardinality(keep) |-> IF C[Kth(keep, k)] = CR THEN LF ELSE C[Kth(keep, k)]]

\* C6 as stated: the text of <contents> in the written document equals the
\* text of the file exactly.
C6_ContentsEqualFileText ==
  outFile.state = "written" =>
    \A f \in RegularFiles(tree) \ unreadable :
      \A i \in RecordsFor(outFile.doc, f) :
        XmlText(outFile.doc[i].contents) = [ok |-> TRUE, text |-> content[f]]

\* C6 amended: the text of <contents> in the written document equals the
\* text of the file with every CR LF pair and every other CR replaced by
\* one LF, and is otherwise unchanged.
C6_ContentsEqualTextWithNewlinesTranslated ==
  outFile.state = "written" =>
    \A f \in RegularFiles(tree) \ unreadable :
      \A i \in RecordsFor(outFile.doc, f) :
        XmlText(outFile.doc[i].contents) = [ok |-> TRUE, text |-> ExpectedNewlines(content[f])]

C6_Witness ==
  /\ outFile.state = "written"
  /\ F_a \in tree /\ content[F_a] = <<CR, "<">>
  /\ RecordsFor(outFile.doc, F_a) # {}

\* C7: get_target_files returns exactly the entries below the directory, at
\* any depth, whose suffix is one of the extensions ignoring case, regular
\* file or not, and each entry that is not a regular file then has a <file>
\* record in the document.
C7_ScanReturnsMatchingEntries ==
  (ValidArgs /\ args.input_dir # None /\ pc \notin {"parse", "scan"}) =>
    /\ target_files =
         { args.input_dir \o SubSeq(e, 4, Len(e)) :
             e \in {x \in tree \ {F_g} : Name(x) \in ExpectedMatchNames} }
    /\ Built =>
         \A p \in target_files :
           AbsOf(p) = D_x =>
             \E i \in 1..Len(xml_root) :
               /\ xml_root[i].filename = N_x_js
               /\ xml_root[i].filepath = PathStr(D_x)

C7_Witness ==
  /\ Built /\ args.input_dir # None
  /\ tree = {D_x, F_e, F_B}
  /\ Cardinality(target_files) = 3

\* C8: when creating the missing output directory fails, the run logs an
\* error, never attempts the write, and ends with exit status 0.
C8_MkdirFailureEndsRun ==
  MkdirError \in Range(log) =>
    /\ pc = "done"
    /\ exitCode = 0
    /\ log[Len(log)] = MkdirError
    /\ OutputUntouched

C8_Witness ==
  /\ MkdirError \in Range(log)
  /\ pc = "done"
  /\ args.output_file = OutSub

\* C9: with valid arguments and a non-empty collected set, a run ends only
\* after attempting the write or after failing to create the output
\* directory.
C9_OnlyStructuralFailuresStop ==
  (pc = "done" /\ ValidArgs /\ all_target_files # {}) =>
    (writes = 1 \/ MkdirError \in Range(log))

Rendered ==
  /\ Built
  /\ all_target_files # {}
  /\ Len(xml_root) = Cardinality(all_target_files)
  /\ Len(pretty_xml) = Len(xml_root)

\* C10: the output path and its directory are touched only once every
\* collected file has been read and the document rendered; the write is
\* attempted at most once; a run that ends before the write leaves an
\* earlier file at the output path as it was.
C10_OutputTouchedLast ==
  /\ (pc \in {"mkdir", "write"} \/ ~OutputUntouched) => Rendered
  /\ writes <= 1
  /\ (pc = "done" /\ writes = 0) => OutputUntouched

C10_Witness ==
  /\ pc = "done" /\ exitCode = 1
  /\ writes = 0
  /\ outFile = [state |-> "old", doc |-> OldDoc]

====
